---- MODULE Spec2Model ----
(***************************************************************************)
(* Model of the FLIP C API wrapper (flip-native/flip_capi.cpp/.h):         *)
(* flip_evaluate translates a flat parameter record into the Engine's      *)
(* parameters, calls the Engine's pointer-based evaluate, stores the mean  *)
(* on request and hands the Engine-allocated error map to the caller;      *)
(* flip_free releases such a buffer.                                       *)
(*                                                                         *)
(* Caller threads run flip_evaluate in three steps (the code before, at    *)
(* and after the Engine call), so that calls of different threads          *)
(* interleave.  The Engine (FLIP.h) is not part of flip-native; it is      *)
(* modelled from its documented contract.                                  *)
(***************************************************************************)
EXTENDS Integers, Sequences, FiniteSets, TLC

VARIABLES
    pc,         \* pc[t]: where thread t is in flip_evaluate
    args,       \* args[t]: the arguments (and borrowed buffers) thread t calls with
    todo,       \* todo[t]: flip_evaluate calls thread t has still to make
    local,      \* local[t]: flip_evaluate's locals: params, meanFLIPError, the Engine call
    meanSlot,   \* meanSlot[t]: the float the caller's mean_error points to
    outSlot,    \* outSlot[t]: the float* the caller's error_map points to
    held,       \* held[t]: error-map pointers thread t owns and has not released
    bufs,       \* every error-map buffer ever allocated, in allocation order
    lastOp,     \* the operation the latest step belonged to
    fault       \* the process was terminated (allocation failure, invalid free)

vars == <<pc, args, todo, local, meanSlot, outSlot, held, bufs, lastOp, fault>>

----------------------------------------------------------------------------
(* Bounds *)

\* heap blocks the allocator can hand out at the same time
NumAddr == 2
\* flip_evaluate calls per thread in Spec
MaxCalls == 2
\* largest image width and height
MaxDim == 2

----------------------------------------------------------------------------
(* Values *)

\* the null pointer
NULL == 0
\* INFINITY, the "auto" exposure bound
INFINITY == 1000
\* the default pixels-per-degree (0.7 m, 3840 px, 0.7 m)
DefaultPPD == 67

Threads == {"t1", "t2"}
Addrs == 1..NumAddr

\* A pointer to a record or to text is <<>> when null and <<x>> when it points to x.
NullPtr == <<>>
PtrTo(x) == <<x>>

\* The mean slot holds this before the first call.
Sentinel == <<"sentinel">>
\* float meanFLIPError = 0.0f
ZeroMean == <<"zero">>

Images == {"imgA", "imgB"}
IntFlags == {0, 1, 2}
KnownTonemappers == {"aces", "reinhard", "hable"}
TonemapperPtrs ==
    {NullPtr} \cup {PtrTo(s) : s \in KnownTonemappers \cup {"", "filmic"}}
\* <<start, stop>>: both auto, a proper range, start > stop
ExposurePairs == {<<INFINITY, INFINITY>>, <<2, 1>>}

\* typedef struct { ppd, start_exposure, stop_exposure, num_exposures, tonemapper }
FlipParameters ==
    {[ppd |-> p, start_exposure |-> e[1], stop_exposure |-> e[2],
      num_exposures |-> n, tonemapper |-> tm] :
        p \in {DefaultPPD, 0}, e \in ExposurePairs,
        n \in {-1, 0}, tm \in TonemapperPtrs}

\* the record a caller fills with the defaults the header documents
DocumentedDefaults ==
    [ppd |-> DefaultPPD, start_exposure |-> INFINITY, stop_exposure |-> INFINITY,
     num_exposures |-> -1, tonemapper |-> PtrTo("aces")]

ParameterPtrs == {NullPtr} \cup {PtrTo(p) : p \in FlipParameters}

\* the arguments of one flip_evaluate call; mean_error is null or points to the
\* caller's mean slot, error_map always points to the caller's output slot
CallArgs ==
    [reference : {"imgA"}, test : Images,
     width : 1..MaxDim, height : 1..MaxDim,
     use_hdr : IntFlags, parameters : ParameterPtrs,
     apply_magma_map : IntFlags, compute_mean_error : IntFlags,
     mean_error : {NullPtr, PtrTo("meanSlot")}]

----------------------------------------------------------------------------
(* The Evaluation Engine (FLIP.h) *)

\* FLIP::Parameters as default-constructed
FLIP_Parameters ==
    [PPD |-> DefaultPPD, startExposure |-> INFINITY, stopExposure |-> INFINITY,
     numExposures |-> -1, tonemapper |-> "aces"]

\* the tone mapper the Engine applies for a name: unrecognized names mean aces
FLIP_toneMapper(name) ==
    IF name \in {"reinhard", "hable"} THEN name ELSE "aces"

\* what the per-pixel error depends on: the images, their size, PPD and, in HDR
\* mode only, the exposure sweep and the tone mapper
FLIP_errorOf(e) ==
    [reference |-> e.reference, test |-> e.test,
     width |-> e.width, height |-> e.height, PPD |-> e.parameters.PPD,
     hdr |-> IF e.useHDR
             THEN <<e.parameters.startExposure, e.parameters.stopExposure,
                    e.parameters.numExposures,
                    FLIP_toneMapper(e.parameters.tonemapper)>>
             ELSE <<>>]

\* new float[width * height * (applyMagmaMapToOutput ? 3 : 1)]
FLIP_errorMapLength(e) ==
    e.width * e.height * (IF e.applyMagmaMapToOutput THEN 3 ELSE 1)

\* the populated error map: magma RGB samples or grayscale error samples
FLIP_errorMap(e) ==
    [i \in 1..FLIP_errorMapLength(e) |->
        <<IF e.applyMagmaMapToOutput THEN "magma" ELSE "gray", FLIP_errorOf(e)>>]

\* meanFLIPError after the call: written only when the mean is requested
FLIP_meanError(e, before) ==
    IF e.computeMeanFLIPError THEN <<"mean", FLIP_errorOf(e)>> ELSE before

----------------------------------------------------------------------------
(* The heap of error maps *)

\* a buffer is live from its allocation to its release
Live(b) == b.state # "released"
LiveAddrs == {bufs[i].addr : i \in {j \in DOMAIN bufs : Live(bufs[j])}}
FreeAddrs == Addrs \ LiveAddrs
\* the live buffer at an address (0 when there is none)
BufAt(a) ==
    IF a \in LiveAddrs
    THEN CHOOSE i \in DOMAIN bufs : Live(bufs[i]) /\ bufs[i].addr = a
    ELSE 0

\* new float[len] at address a, filled by the Engine
Allocated(a, data) ==
    Append(bufs, [addr |-> a, len |-> Len(data), data |-> data,
                  state |-> "engine", frees |-> 0])

\* delete[] of the block at ptr: the buffer is destroyed, its memory is gone
DeleteArray(ptr) ==
    [bufs EXCEPT ![BufAt(ptr)] =
        [addr |-> NULL, len |-> 0, data |-> <<>>,
         state |-> "released", frees |-> @.frees + 1]]

----------------------------------------------------------------------------
(* flip_evaluate *)

NoLocal == [params |-> FLIP_Parameters, meanFLIPError |-> ZeroMean, engine |-> <<>>]

\* the copy of the caller's record, given what each field is copied from and
\* what a null tonemapper leaves in params.tonemapper
Translated(p, ppd, num, tm) ==
    [PPD |-> ppd,
     startExposure |-> p.start_exposure,
     stopExposure |-> p.stop_exposure,
     numExposures |-> num,
     tonemapper |-> tm]

\* bug: params.PPD is copied from start_exposure
TranslateParameters_WrongField(parameters) ==
    IF parameters # NullPtr
    THEN LET p == parameters[1] IN
         Translated(p, p.start_exposure, p.num_exposures,
                    IF p.tonemapper # NullPtr THEN p.tonemapper[1]
                    ELSE FLIP_Parameters.tonemapper)
    ELSE FLIP_Parameters

\* bug: a null tonemapper is copied as the empty string
TranslateParameters_NullAsEmpty(parameters) ==
    IF parameters # NullPtr
    THEN LET p == parameters[1] IN
         Translated(p, p.ppd, p.num_exposures,
                    IF p.tonemapper # NullPtr THEN p.tonemapper[1] ELSE "")
    ELSE FLIP_Parameters

\* bug: the tonemapper is never copied
TranslateParameters_NoTonemapper(parameters) ==
    IF parameters # NullPtr
    THEN LET p == parameters[1] IN
         Translated(p, p.ppd, p.num_exposures, FLIP_Parameters.tonemapper)
    ELSE FLIP_Parameters

\* bug: num_exposures = 0 is replaced by the auto sentinel
TranslateParameters_ZeroIsAuto(parameters) ==
    IF parameters # NullPtr
    THEN LET p == parameters[1] IN
         Translated(p, p.ppd,
                    IF p.num_exposures = 0 THEN FLIP_Parameters.numExposures
                    ELSE p.num_exposures,
                    IF p.tonemapper # NullPtr THEN p.tonemapper[1]
                    ELSE FLIP_Parameters.tonemapper)
    ELSE FLIP_Parameters

\* lines 33-44: FLIP::Parameters params; copy of the caller's record, if any
TranslateParameters(parameters) ==
    IF parameters # NullPtr
    THEN LET p == parameters[1] IN
         [PPD |-> p.ppd,
          startExposure |-> p.start_exposure,
          stopExposure |-> p.stop_exposure,
          numExposures |-> p.num_exposures,
          tonemapper |-> IF p.tonemapper # NullPtr
                         THEN p.tonemapper[1]
                         ELSE FLIP_Parameters.tonemapper]
    ELSE FLIP_Parameters

\* bug: apply_magma_map is compared with 1 instead of tested for non-zero
EngineCall_MagmaIsOne(a, params) ==
    [reference |-> a.reference, test |-> a.test,
     width |-> a.width, height |-> a.height,
     useHDR |-> a.use_hdr # 0,
     parameters |-> params,
     applyMagmaMapToOutput |-> a.apply_magma_map = 1,
     computeMeanFLIPError |-> a.compute_mean_error # 0]

\* lines 49-60: the arguments FLIP::evaluate is called with
EngineCall(a, params) ==
    [reference |-> a.reference, test |-> a.test,
     width |-> a.width, height |-> a.height,
     useHDR |-> a.use_hdr # 0,
     parameters |-> params,
     applyMagmaMapToOutput |-> a.apply_magma_map # 0,
     computeMeanFLIPError |-> a.compute_mean_error # 0]

\* lines 21-66: what a call with arguments a computes: the error map it hands
\* out and the value of meanFLIPError after the Engine call
flip_evaluate_result(a) ==
    LET e == EngineCall(a, TranslateParameters(a.parameters)) IN
    [error_map |-> FLIP_errorMap(e), mean |-> FLIP_meanError(e, ZeroMean)]

\* bug: the mean is stored whenever a destination is given
StoresMean_IgnoresFlag(a) == a.mean_error # NullPtr

\* line 63: if (compute_mean_error && mean_error)
StoresMean(a) == a.compute_mean_error # 0 /\ a.mean_error # NullPtr

\* bug: params is a static object, shared by every call in flight
flip_evaluate_begin_StaticParams(t) ==
    /\ ~fault
    /\ pc[t] = "idle"
    /\ todo[t] > 0
    /\ todo' = [todo EXCEPT ![t] = @ - 1]
    /\ local' = [u \in Threads |->
                    [params |-> TranslateParameters(args[t].parameters),
                     meanFLIPError |-> IF u = t THEN ZeroMean
                                       ELSE local[u].meanFLIPError,
                     engine |-> IF u = t THEN <<>> ELSE local[u].engine]]
    /\ pc' = [pc EXCEPT ![t] = "engine"]
    /\ lastOp' = "flip_evaluate"
    /\ UNCHANGED <<args, meanSlot, outSlot, held, bufs, fault>>

\* entry of flip_evaluate up to the Engine call
flip_evaluate_begin(t) ==
    /\ ~fault
    /\ pc[t] = "idle"
    /\ todo[t] > 0
    /\ todo' = [todo EXCEPT ![t] = @ - 1]
    /\ local' = [local EXCEPT ![t] =
                    [params |-> TranslateParameters(args[t].parameters),
                     meanFLIPError |-> ZeroMean, engine |-> <<>>]]
    /\ pc' = [pc EXCEPT ![t] = "engine"]
    /\ lastOp' = "flip_evaluate"
    /\ UNCHANGED <<args, meanSlot, outSlot, held, bufs, fault>>

\* bug: the error map is written to one static buffer, handed out by every call
flip_evaluate_engine_StaticBuffer(t) ==
    /\ ~fault
    /\ pc[t] = "engine"
    /\ LET e == EngineCall(args[t], local[t].params)
           a == CHOOSE x \in Addrs : \A y \in Addrs : x <= y
       IN /\ bufs' = Allocated(a, FLIP_errorMap(e))
          /\ outSlot' = [outSlot EXCEPT ![t] = a]
          /\ local' = [local EXCEPT ![t] =
                [@ EXCEPT !.meanFLIPError = FLIP_meanError(e, @),
                          !.engine = <<e>>]]
          /\ pc' = [pc EXCEPT ![t] = "store"]
    /\ lastOp' = "flip_evaluate"
    /\ UNCHANGED <<args, todo, meanSlot, held, fault>>

\* the Engine call: it allocates and fills the error map, writes its address
\* through error_map and the mean into meanFLIPError; a failed allocation
\* terminates the process
flip_evaluate_engine(t) ==
    /\ ~fault
    /\ pc[t] = "engine"
    /\ LET e == EngineCall(args[t], local[t].params) IN
       IF FreeAddrs = {}
       THEN /\ fault' = TRUE
            /\ UNCHANGED <<pc, local, outSlot, bufs>>
       ELSE /\ \E a \in FreeAddrs :
                 /\ bufs' = Allocated(a, FLIP_errorMap(e))
                 /\ outSlot' = [outSlot EXCEPT ![t] = a]
            /\ local' = [local EXCEPT ![t] =
                  [@ EXCEPT !.meanFLIPError = FLIP_meanError(e, @),
                            !.engine = <<e>>]]
            /\ pc' = [pc EXCEPT ![t] = "store"]
            /\ UNCHANGED fault
    /\ lastOp' = "flip_evaluate"
    /\ UNCHANGED <<args, todo, meanSlot, held>>

\* bug: flip_evaluate cleans up the Engine's output before it returns
flip_evaluate_end_FreesMap(t) ==
    /\ ~fault
    /\ pc[t] = "store"
    /\ meanSlot' = IF StoresMean(args[t])
                   THEN [meanSlot EXCEPT ![t] = local[t].meanFLIPError]
                   ELSE meanSlot
    /\ bufs' = DeleteArray(outSlot[t])
    /\ held' = [held EXCEPT ![t] = @ \cup {outSlot[t]}]
    /\ local' = [local EXCEPT ![t] = NoLocal]
    /\ pc' = [pc EXCEPT ![t] = "idle"]
    /\ lastOp' = "flip_evaluate"
    /\ UNCHANGED <<args, todo, outSlot, fault>>

\* lines 62-66: store the mean if requested, then return; the error map is
\* the caller's from here on
flip_evaluate_end(t) ==
    /\ ~fault
    /\ pc[t] = "store"
    /\ meanSlot' = IF StoresMean(args[t])
                   THEN [meanSlot EXCEPT ![t] = local[t].meanFLIPError]
                   ELSE meanSlot
    /\ bufs' = [bufs EXCEPT ![BufAt(outSlot[t])].state = "caller"]
    /\ held' = [held EXCEPT ![t] = @ \cup {outSlot[t]}]
    /\ local' = [local EXCEPT ![t] = NoLocal]
    /\ pc' = [pc EXCEPT ![t] = "idle"]
    /\ lastOp' = "flip_evaluate"
    /\ UNCHANGED <<args, todo, outSlot, fault>>

----------------------------------------------------------------------------
(* flip_free *)

\* bug: no null check before a deallocation that looks the block up
flip_free_NoNullCheck(t, ptr) ==
    /\ ~fault
    /\ pc[t] = "idle"
    /\ IF BufAt(ptr) # 0
       THEN bufs' = DeleteArray(ptr) /\ UNCHANGED fault
       ELSE fault' = TRUE /\ UNCHANGED bufs
    /\ held' = [held EXCEPT ![t] = @ \ {ptr}]
    /\ lastOp' = IF ptr # NULL THEN "flip_free" ELSE "flip_free_null"
    /\ UNCHANGED <<pc, args, todo, local, meanSlot, outSlot>>

\* lines 68-73: if (ptr) delete[] static_cast<float*>(ptr);
flip_free(t, ptr) ==
    /\ ~fault
    /\ pc[t] = "idle"
    /\ IF ptr # NULL
       THEN /\ IF BufAt(ptr) # 0
               THEN bufs' = DeleteArray(ptr) /\ UNCHANGED fault
               ELSE \* not a live block: undefined, the process may die or go on
                    fault' \in BOOLEAN /\ UNCHANGED bufs
            /\ held' = [held EXCEPT ![t] = @ \ {ptr}]
            /\ lastOp' = "flip_free"
       ELSE /\ lastOp' = "flip_free_null"
            /\ UNCHANGED <<bufs, held, fault>>
    /\ UNCHANGED <<pc, args, todo, local, meanSlot, outSlot>>

----------------------------------------------------------------------------
(* Specifications *)

\* the calls of Spec: two threads, each with its own buffers
ConcCalls ==
    {a \in CallArgs :
        /\ a.width = 1 /\ a.height = 1 /\ a.use_hdr = 1
        /\ a.test = "imgB"
        /\ a.mean_error # NullPtr
        /\ a.apply_magma_map = 1
        /\ a.compute_mean_error \in {0, 1}
        /\ a.parameters \in {NullPtr,
              PtrTo([DocumentedDefaults EXCEPT !.tonemapper = PtrTo("hable")])}}

TypeStart ==
    /\ pc = [t \in Threads |-> "idle"]
    /\ local = [t \in Threads |-> NoLocal]
    /\ meanSlot = [t \in Threads |-> Sentinel]
    /\ outSlot = [t \in Threads |-> NULL]
    /\ held = [t \in Threads |-> {}]
    /\ bufs = <<>>
    /\ lastOp = "none"
    /\ fault = FALSE

\* two threads, MaxCalls calls each
Init ==
    /\ TypeStart
    /\ args \in [Threads -> ConcCalls]
    /\ todo = [t \in Threads |-> MaxCalls]

\* one call with any arguments, by thread t1
InitSingle ==
    /\ TypeStart
    /\ args \in {[t \in Threads |-> a] : a \in CallArgs}
    /\ todo = [t \in Threads |-> IF t = "t1" THEN 1 ELSE 0]

Next ==
    \E t \in Threads :
        \/ flip_evaluate_begin(t)
        \/ flip_evaluate_engine(t)
        \/ flip_evaluate_end(t)
        \/ \E ptr \in held[t] \cup {NULL} : flip_free(t, ptr)

Spec == Init /\ [][Next]_vars
SpecSingle == InitSingle /\ [][Next]_vars

----------------------------------------------------------------------------
(* Properties *)

\* the buffer a thread's output slot points to, the contents of a live block
SlotBuf(t) == bufs[BufAt(outSlot[t])]
DataAt(ptr) == bufs[BufAt(ptr)].data
\* thread t is between the Engine call and the return of flip_evaluate
AfterEngine(t) == pc[t] = "store"
\* thread t's latest step was the return of flip_evaluate
Returns(t) == pc[t] = "store" /\ pc'[t] = "idle"

\* C1: the caller's mean destination is written, with the Engine's mean
\* accumulator, exactly by the return of a call whose compute_mean_error is
\* non-zero and whose mean_error is non-null; no other step of any call, and no
\* call with compute_mean_error = 0 or a null mean_error, changes it.
C1_MeanWrittenIffRequested ==
    [][\A t \in Threads :
          IF /\ Returns(t)
             /\ args[t].compute_mean_error # 0
             /\ args[t].mean_error # NullPtr
          THEN /\ meanSlot'[t] = local[t].meanFLIPError
               /\ meanSlot'[t] = <<"mean", FLIP_errorOf(local[t].engine[1])>>
               /\ meanSlot'[t] # meanSlot[t]
          ELSE meanSlot'[t] = meanSlot[t]]_vars

\* a call with compute_mean_error = 2 and a destination has returned and the
\* destination holds a mean
C1_Witness ==
    /\ pc["t1"] = "idle" /\ todo["t1"] = 0 /\ lastOp = "flip_evaluate"
    /\ args["t1"].compute_mean_error = 2
    /\ args["t1"].mean_error # NullPtr
    /\ meanSlot["t1"][1] = "mean"

\* C3: between the Engine call and the return, and after it, *error_map points
\* to a buffer of exactly width*height floats when apply_magma_map is zero and
\* 3*width*height floats when it is non-zero, whatever use_hdr, the parameter
\* record and compute_mean_error are.
C3_ErrorMapLength ==
    \A t \in Threads :
        (AfterEngine(t) \/ outSlot[t] \in held[t]) =>
            LET n == args[t].width * args[t].height IN
            /\ BufAt(outSlot[t]) # 0
            /\ SlotBuf(t).len = IF args[t].apply_magma_map = 0 THEN n ELSE 3 * n
            /\ Len(SlotBuf(t).data) = SlotBuf(t).len

\* a returned 2x2 colour-mapped error map (apply_magma_map = 2) of 12 floats
C3_Witness ==
    /\ outSlot["t1"] \in held["t1"]
    /\ args["t1"].apply_magma_map = 2
    /\ args["t1"].width = 2 /\ args["t1"].height = 2
    /\ SlotBuf("t1").len = 12

\* C4: a call with a null parameter record runs the Engine with the Engine's
\* default in every field, and its error map and mean are those of the same
\* call with an explicit record holding the documented defaults.
C4_NullRecordIsDefaults ==
    \A t \in Threads :
        (args[t].parameters = NullPtr /\ pc[t] # "idle") =>
            /\ local[t].params = FLIP_Parameters
            /\ AfterEngine(t) =>
                 LET explicit == flip_evaluate_result(
                        [args[t] EXCEPT !.parameters = PtrTo(DocumentedDefaults)])
                 IN /\ local[t].engine[1].parameters = FLIP_Parameters
                    /\ SlotBuf(t).data = explicit.error_map
                    /\ local[t].meanFLIPError = explicit.mean

\* an HDR call with a null record and a requested mean is past the Engine call
C4_Witness ==
    /\ AfterEngine("t1")
    /\ args["t1"].parameters = NullPtr
    /\ args["t1"].use_hdr # 0
    /\ args["t1"].compute_mean_error # 0
    /\ local["t1"].meanFLIPError[1] = "mean"

\* the tonemapper field of thread t's record (only for a non-null record)
TonemapperOf(t) == args[t].parameters[1].tonemapper

\* C5 as stated: with a non-null record whose tonemapper is a null pointer or
\* an empty string, the Engine's tonemapper parameter keeps its default.
C5_EmptyOrAbsentKeepsDefault ==
    \A t \in Threads :
        (/\ pc[t] # "idle"
         /\ args[t].parameters # NullPtr
         /\ TonemapperOf(t) \in {NullPtr, PtrTo("")}) =>
            local[t].params.tonemapper = FLIP_Parameters.tonemapper

\* C5, amended: with a non-null record, the Engine's tonemapper parameter
\* keeps its default exactly when the tonemapper field is a null pointer; a
\* non-null field, the empty string included, is copied over the default (the
\* Engine then still applies its default tone mapper for the empty name).
C5_NullKeepsDefault ==
    \A t \in Threads :
        (pc[t] # "idle" /\ args[t].parameters # NullPtr) =>
            /\ local[t].params.tonemapper =
                  IF TonemapperOf(t) = NullPtr
                  THEN FLIP_Parameters.tonemapper
                  ELSE TonemapperOf(t)[1]
            /\ TonemapperOf(t) \in {NullPtr, PtrTo("")} =>
                  FLIP_toneMapper(local[t].params.tonemapper) =
                      FLIP_toneMapper(FLIP_Parameters.tonemapper)

\* a call whose record has a null tonemapper is past the translation
C5_Witness ==
    /\ pc["t1"] = "engine"
    /\ args["t1"].parameters # NullPtr
    /\ TonemapperOf("t1") = NullPtr
    /\ args["t1"].parameters[1].ppd = 0
    /\ local["t1"].params.PPD = 0

\* C9: a record naming aces, reinhard or hable is evaluated with that tone
\* mapper; a record naming anything else is evaluated with aces, with the
\* error map and mean of the same call with the tonemapper absent.
C9_TonemapperSelection ==
    \A t \in Threads :
        (/\ AfterEngine(t)
         /\ args[t].parameters # NullPtr
         /\ TonemapperOf(t) # NullPtr) =>
            LET name == TonemapperOf(t)[1]
                used == FLIP_toneMapper(local[t].engine[1].parameters.tonemapper)
                absent == flip_evaluate_result(
                    [args[t] EXCEPT !.parameters[1].tonemapper = NullPtr])
            IN IF name \in KnownTonemappers
               THEN /\ used = name
                    /\ args[t].use_hdr # 0 => SlotBuf(t).data[1][2].hdr[4] = name
               ELSE /\ used = "aces"
                    /\ SlotBuf(t).data = absent.error_map
                    /\ local[t].meanFLIPError = absent.mean

\* an HDR call naming an unknown tone mapper is past the Engine call
C9_Witness ==
    /\ AfterEngine("t1")
    /\ args["t1"].parameters # NullPtr
    /\ TonemapperOf("t1") = PtrTo("filmic")
    /\ args["t1"].use_hdr # 0
    /\ SlotBuf("t1").data[1][2].hdr[4] = "aces"

\* C10: with a non-null record the Engine receives ppd, start_exposure,
\* stop_exposure and num_exposures as supplied, width, height and the image
\* pointers unchanged, and each flag as true exactly when the integer is
\* non-zero.
C10_PassThrough ==
    \A t \in Threads :
        (AfterEngine(t) /\ args[t].parameters # NullPtr) =>
            LET e == local[t].engine[1]
                p == args[t].parameters[1]
            IN /\ e.parameters.PPD = p.ppd
               /\ e.parameters.startExposure = p.start_exposure
               /\ e.parameters.stopExposure = p.stop_exposure
               /\ e.parameters.numExposures = p.num_exposures
               /\ e.reference = args[t].reference /\ e.test = args[t].test
               /\ e.width = args[t].width /\ e.height = args[t].height
               /\ e.useHDR = (args[t].use_hdr # 0)
               /\ e.applyMagmaMapToOutput = (args[t].apply_magma_map # 0)
               /\ e.computeMeanFLIPError = (args[t].compute_mean_error # 0)

\* the Engine was called with ppd 0, start > stop and zero exposures
C10_Witness ==
    /\ AfterEngine("t1")
    /\ args["t1"].parameters # NullPtr
    /\ args["t1"].parameters[1].ppd = 0
    /\ args["t1"].parameters[1].start_exposure > args["t1"].parameters[1].stop_exposure
    /\ args["t1"].parameters[1].num_exposures = 0
    /\ args["t1"].use_hdr = 2
    /\ local["t1"].engine[1].parameters.numExposures = 0
    /\ local["t1"].engine[1].useHDR

\* every thread has made its calls and released what it was given
AllDone ==
    \A t \in Threads : pc[t] = "idle" /\ todo[t] = 0 /\ held[t] = {}

\* a buffer counts one destruction exactly when it is released; once a caller
\* has released each pointer it was given, every buffer is destroyed once
C2_DestroyedOnce ==
    /\ \A i \in DOMAIN bufs :
          bufs[i].frees = IF bufs[i].state = "released" THEN 1 ELSE 0
    /\ AllDone => \A i \in DOMAIN bufs : bufs[i].state = "released"

\* the steps of a buffer: created Engine-owned by flip_evaluate at an address
\* no live buffer has, handed to the caller unchanged by flip_evaluate,
\* released by flip_free; nothing else, and nothing after the release
C2_Step ==
    /\ Len(bufs') \in {Len(bufs), Len(bufs) + 1}
    /\ \A i \in DOMAIN bufs :
          \/ bufs'[i] = bufs[i]
          \/ /\ bufs[i].state = "engine"
             /\ bufs'[i] = [bufs[i] EXCEPT !.state = "caller"]
             /\ lastOp' = "flip_evaluate"
          \/ /\ bufs[i].state = "caller"
             /\ bufs'[i].state = "released"
             /\ lastOp' = "flip_free"
    /\ Len(bufs') > Len(bufs) =>
          /\ lastOp' = "flip_evaluate"
          /\ bufs'[Len(bufs')].state = "engine"
          /\ bufs'[Len(bufs')].addr \notin LiveAddrs

\* C2: each error map goes unallocated -> Engine-owned -> caller-owned (at the
\* return of flip_evaluate) -> released, in that order only; flip_evaluate
\* never frees or reuses a buffer, released is terminal, and a caller that
\* releases each returned pointer once destroys every buffer exactly once.
C2_Lifecycle == []C2_DestroyedOnce /\ [][C2_Step]_vars

\* all calls made, all 2 * MaxCalls buffers released
C2_Witness ==
    /\ AllDone
    /\ Len(bufs) = 2 * MaxCalls
    /\ \A i \in DOMAIN bufs : bufs[i].state = "released" /\ bufs[i].frees = 1

\* C6: flip_free(NULL) deallocates nothing, changes no buffer and no caller
\* state, and does not fault, wherever it occurs among the calls.
C6_FreeNullIsNoOp ==
    [][lastOp' = "flip_free_null" =>
          UNCHANGED <<bufs, fault, held, pc, args, todo, local, meanSlot, outSlot>>]_vars

\* flip_free(NULL) was called while one thread owns an error map and the
\* other is inside flip_evaluate with an Engine-owned one
C6_Witness ==
    /\ lastOp = "flip_free_null"
    /\ ~fault
    /\ held["t1"] # {}
    /\ pc["t2"] = "store"
    /\ \E i \in DOMAIN bufs : bufs[i].state = "engine"

\* live buffers have distinct addresses; pointers of different owners differ;
\* every owned pointer is a live caller-owned buffer with the call's error
\* map, so calls with the same arguments hold equal maps
C7_Distinct ==
    /\ \A i, j \in DOMAIN bufs :
          (i # j /\ Live(bufs[i]) /\ Live(bufs[j])) => bufs[i].addr # bufs[j].addr
    /\ \A t, u \in Threads : t # u => held[t] \cap held[u] = {}
    /\ \A t \in Threads : \A p \in held[t] :
          /\ BufAt(p) # 0
          /\ bufs[BufAt(p)].state = "caller"
          /\ DataAt(p) = flip_evaluate_result(args[t]).error_map
    /\ \A t, u \in Threads : \A p \in held[t], q \in held[u] :
          args[t] = args[u] => DataAt(p) = DataAt(q)

\* a release destroys one caller-owned buffer and leaves every other buffer as
\* it was
C7_ReleaseOne ==
    lastOp' = "flip_free" =>
        \E i \in DOMAIN bufs :
            /\ bufs[i].state = "caller"
            /\ bufs'[i].state = "released"
            /\ Len(bufs') = Len(bufs)
            /\ \A j \in DOMAIN bufs : j # i => bufs'[j] = bufs[j]

\* C7: calls with the same arguments return equal error maps in distinct
\* allocations: returned pointers never alias while unreleased, and releasing
\* one leaves the others allocated, caller-owned and unchanged.
C7_NoAliasing == []C7_Distinct /\ [][C7_ReleaseOne]_vars

\* two threads called with the same arguments, t2 released its error map and
\* t1 still owns one, with the same contents
C7_Witness ==
    /\ args["t1"] = args["t2"]
    /\ lastOp = "flip_free"
    /\ held["t2"] = {}
    /\ \E i \in DOMAIN bufs : bufs[i].state = "released"
    /\ \E p \in held["t1"] :
          DataAt(p) = flip_evaluate_result(args["t2"]).error_map

\* what thread t's mean destination holds once a call of it has stored the mean
WantsMean(t) ==
    args[t].compute_mean_error # 0 /\ args[t].mean_error # NullPtr

\* each call's error map and mean are those of the call run alone
C8_AsAlone ==
    \A t \in Threads :
        LET alone == flip_evaluate_result(args[t]) IN
        /\ AfterEngine(t) =>
              /\ SlotBuf(t).data = alone.error_map
              /\ local[t].meanFLIPError = alone.mean
        /\ \A p \in held[t] : DataAt(p) = alone.error_map
        /\ meanSlot[t] \in {Sentinel, alone.mean}
        /\ ~WantsMean(t) => meanSlot[t] = Sentinel
        /\ (WantsMean(t) /\ held[t] # {}) => meanSlot[t] = alone.mean

\* a step of one thread's call leaves the other threads' locals, slots and
\* pointers alone, and no step writes the borrowed arguments
C8_Step ==
    /\ args' = args
    /\ \A t \in Threads :
          pc'[t] # pc[t] =>
              \A u \in Threads \ {t} :
                  /\ local'[u] = local[u]
                  /\ meanSlot'[u] = meanSlot[u]
                  /\ outSlot'[u] = outSlot[u]
                  /\ held'[u] = held[u]

\* C8: concurrent flip_evaluate calls with their own buffers do not interfere:
\* in every interleaving each call gets the error map and mean it gets alone,
\* and writes neither another call's slots nor the borrowed buffers.
C8_NoInterference == []C8_AsAlone /\ [][C8_Step]_vars

\* both threads are inside flip_evaluate, past the Engine call, with different
\* parameter records and different error maps
C8_Witness ==
    /\ AfterEngine("t1") /\ AfterEngine("t2")
    /\ args["t1"].parameters = NullPtr
    /\ args["t2"].parameters # NullPtr
    /\ SlotBuf("t1").data # SlotBuf("t2").data
    /\ outSlot["t1"] # outSlot["t2"]

====
